---- MODULE Spec2Model ----
(***************************************************************************)
(* A model of src/_work.js: a VLESS-over-WebSocket relay for Cloudflare    *)
(* Workers.  One session (one call of vlessOverWSHandler) is modelled as a *)
(* state machine over the client WebSocket, the ReadableStream built by    *)
(* makeReadableWebSocketStream, the pipeTo sink that decodes the header    *)
(* and writes upstream, the outbound socket, and the pump remoteSocketToWS.*)
(* Byte buffers are sequences of 0..255; the pure functions                *)
(* (processVlessHeader, base64ToArrayBuffer) are operators computed the    *)
(* way the JavaScript computes them, slice clamping and undefined/NaN      *)
(* included.                                                               *)
(***************************************************************************)
EXTENDS Integers, Sequences, FiniteSets, TLC

VARIABLES
    \* --- client WebSocket (server end of the WebSocketPair) ---
    wsClosedOut,          \* server.close() has been called
    wsClosedIn,           \* the peer's close has been received ('close' event)
    wsCloseCalls,         \* number of times ws.close() was invoked
    wsSent,               \* messages sent to the client, in order
    wsErrorSeen,          \* an 'error' event has been dispatched
    msgCount,             \* number of 'message' events dispatched
    msgs,                 \* the event.data the 'message' listener has read, in order
    \* --- makeReadableWebSocketStream ---
    earlyDataHeader,      \* the sec-websocket-protocol token (sequence of chars)
    earlyDecode,          \* what base64ToArrayBuffer made of it (line 212)
    rsState,              \* "readable" | "closed" | "errored"
    rsQueue,              \* chunks enqueued and not yet read
    rsCloseRequested,     \* controller.close() was called
    readableStreamCancel, \* the flag of line 195
    accepted,             \* every chunk ever enqueued, in order
    rsThrows,             \* number of enqueue/close calls that threw (finished stream)
    queuedAtClose,        \* chunks still queued when controller.close() was called
    \* --- vlessOverWSHandler: the pipeTo sink ---
    pipeState,            \* "running" | "done" (source closed) | "aborted" (source
                          \* errored) | "failed" (write() threw)
    wpc,                  \* position of the sink's write(): "idle" | "firstWrite" | "nextWrite"
    curWrite,             \* the bytes of the upstream write in flight
    remoteSocket,         \* remoteSocketWapper.value: 0 (null) or the socket's id
    isDns,                \* line 75
    vlessResponseHeader,  \* line 117, as captured for remoteSocketToWS
    delivered,            \* chunks handed to the sink's write(), in order
    decodeInputs,         \* arguments of every processVlessHeader call, in order
    connectArgs,          \* arguments of every connect() call, in order
    upWrites,             \* chunks whose upstream write completed, in order
    \* --- outbound socket and remoteSocketToWS ---
    sockState,            \* "none" | "open" | "eof" | "errored" | "cancelled"
    writerLocked,         \* socket.writable is locked by a writer
    pumpState,            \* "none" | "running" | "done" | "errored"
    vlessHeaderSent,      \* line 163
    upCount,              \* number of chunks read from the socket so far
    \* --- module state shared by every request (lines 8-12, 22-23) ---
    proxyIP,              \* line 12: the override host, '' unless set
    \* --- header decoder driven on its own ---
    hdrInput,             \* the buffer handed to processVlessHeader
    hdrResult             \* what it returned

vars == << wsClosedOut, wsClosedIn, wsCloseCalls, wsSent, wsErrorSeen, msgCount, msgs,
           earlyDataHeader, earlyDecode, proxyIP, rsState, rsQueue, rsCloseRequested, readableStreamCancel,
           accepted, rsThrows, queuedAtClose,
           pipeState, wpc, curWrite, remoteSocket, isDns, vlessResponseHeader,
           delivered, decodeInputs, connectArgs, upWrites,
           sockState, writerLocked, pumpState, vlessHeaderSent, upCount,
           hdrInput, hdrResult >>

(***************************************************************************)
(* JavaScript values                                                       *)
(***************************************************************************)
\* typedArray[i] beyond the end
Undefined == -1
\* the result of arithmetic on undefined
NaN == -2

Min(a, b) == IF a < b THEN a ELSE b

\* a + b on numbers, with undefined/NaN operands giving NaN
JsAdd(a, b) == IF a < 0 \/ b < 0 THEN NaN ELSE a + b

\* ToInt32 of a byte or undefined, as used by << and |
ToInt32(x) == IF x < 0 THEN 0 ELSE x

\* ToIntegerOrInfinity of a slice index: NaN becomes 0
ToIndex(x) == IF x < 0 THEN 0 ELSE x

\* ArrayBuffer.prototype.slice(start, end) for non-negative or NaN indexes
Slice(buf, start, end) ==
    LET s == Min(ToIndex(start), Len(buf))
        e == Min(ToIndex(end), Len(buf))
    IN  IF e <= s THEN << >> ELSE SubSeq(buf, s + 1, e)

\* ArrayBuffer.prototype.slice(start)
SliceFrom(buf, start) == Slice(buf, start, Len(buf))

\* new Uint8Array(buf.slice(i, i + 1))[0]
ByteAt(buf, i) ==
    LET s == Slice(buf, i, JsAdd(i, 1))
    IN  IF s = << >> THEN Undefined ELSE s[1]

(***************************************************************************)
(* processVlessHeader (lines 230-289)                                      *)
(***************************************************************************)
\* a JavaScript string built from bytes: how it was rendered, and from what
EmptyStr == [fmt |-> "utf8", bytes |-> << >>]
JoinDots(bytes) == IF bytes = << >> THEN EmptyStr ELSE [fmt |-> "dotted", bytes |-> bytes]
TextDecode(bytes) == [fmt |-> "utf8", bytes |-> bytes]
Ipv6Literal == [fmt |-> "literal", bytes |-> << >>]

MinHeaderLength == 24

\* a decoder that forgets line 267 (addressValueIndex += 1)
DecodeAddress_NoLengthSkip(vlessBuffer, addressType, addressValueIndex) ==
    IF addressType = 1 THEN
        [ok |-> TRUE, addressLength |-> 4, addressValueIndex |-> addressValueIndex,
         addressValue |-> JoinDots(Slice(vlessBuffer, addressValueIndex,
                                         addressValueIndex + 4))]
    ELSE IF addressType = 2 THEN
        LET addressLength == ByteAt(vlessBuffer, addressValueIndex)
        IN  [ok |-> TRUE, addressLength |-> addressLength,
             addressValueIndex |-> addressValueIndex,
             addressValue |-> TextDecode(Slice(vlessBuffer, addressValueIndex,
                                               JsAdd(addressValueIndex, addressLength)))]
    ELSE IF addressType = 3 THEN
        [ok |-> TRUE, addressLength |-> 16, addressValueIndex |-> addressValueIndex,
         addressValue |-> Ipv6Literal]
    ELSE
        [ok |-> FALSE]

\* lines 262-274: the address union; gives the address length, the index of
\* the address value and the rendered address, or an error
DecodeAddress(vlessBuffer, addressType, addressValueIndex) ==
    IF addressType = 1 THEN
        [ok |-> TRUE, addressLength |-> 4, addressValueIndex |-> addressValueIndex,
         addressValue |-> JoinDots(Slice(vlessBuffer, addressValueIndex,
                                         addressValueIndex + 4))]
    ELSE IF addressType = 2 THEN
        LET addressLength == ByteAt(vlessBuffer, addressValueIndex)
            avi == addressValueIndex + 1
        IN  [ok |-> TRUE, addressLength |-> addressLength, addressValueIndex |-> avi,
             addressValue |-> TextDecode(Slice(vlessBuffer, avi, JsAdd(avi, addressLength)))]
    ELSE IF addressType = 3 THEN
        [ok |-> TRUE, addressLength |-> 16, addressValueIndex |-> addressValueIndex,
         addressValue |-> Ipv6Literal]
    ELSE
        [ok |-> FALSE]

processVlessHeader(vlessBuffer, uid) ==
    IF Len(vlessBuffer) < MinHeaderLength THEN
        [hasError |-> TRUE, message |-> "invalid data"]
    ELSE
        LET version == Slice(vlessBuffer, 0, 1)
            optLength == ByteAt(vlessBuffer, 17)
            cmd == ByteAt(vlessBuffer, 18 + optLength)
            portIndex == 19 + optLength
            portBuffer == Slice(vlessBuffer, portIndex, portIndex + 2)
            pb0 == IF Len(portBuffer) >= 1 THEN portBuffer[1] ELSE Undefined
            pb1 == IF Len(portBuffer) >= 2 THEN portBuffer[2] ELSE Undefined
            portRemote == ToInt32(pb0) * 256 + ToInt32(pb1)
            addressIndex == portIndex + 2
            addressType == ByteAt(vlessBuffer, addressIndex)
            addr == DecodeAddress(vlessBuffer, addressType, addressIndex + 1)
        IN  IF cmd \notin {1, 2} THEN
                [hasError |-> TRUE, message |-> "command is not support"]
            ELSE IF ~addr.ok THEN
                [hasError |-> TRUE, message |-> "invild addressType"]
            ELSE
                [hasError |-> FALSE,
                 addressRemote |-> addr.addressValue,
                 addressType |-> addressType,
                 portRemote |-> portRemote,
                 rawDataIndex |-> JsAdd(addr.addressValueIndex, addr.addressLength),
                 vlessVersion |-> version,
                 isUDP |-> (cmd = 2)]

(***************************************************************************)
(* base64ToArrayBuffer (lines 291-301)                                     *)
(***************************************************************************)
B64Alphabet ==
    << "A","B","C","D","E","F","G","H","I","J","K","L","M","N","O","P",
       "Q","R","S","T","U","V","W","X","Y","Z","a","b","c","d","e","f",
       "g","h","i","j","k","l","m","n","o","p","q","r","s","t","u","v",
       "w","x","y","z","0","1","2","3","4","5","6","7","8","9","+","/" >>

IsB64Char(c) == \E i \in 1..Len(B64Alphabet) : B64Alphabet[i] = c
B64Value(c) == (CHOOSE i \in 1..Len(B64Alphabet) : B64Alphabet[i] = c) - 1

\* line 294: replace(/-/g, '+').replace(/_/g, '/')
UrlSafeToStd(str) ==
    [i \in 1..Len(str) |-> IF str[i] = "-" THEN "+" ELSE IF str[i] = "_" THEN "/" ELSE str[i]]

\* atob's padding rule: a length divisible by 4 loses one or two trailing "="
StripPadding(str) ==
    IF Len(str) % 4 = 0 /\ Len(str) > 0 /\ str[Len(str)] = "="
    THEN IF str[Len(str) - 1] = "="
         THEN SubSeq(str, 1, Len(str) - 2)
         ELSE SubSeq(str, 1, Len(str) - 1)
    ELSE str

\* atob (forgiving-base64 decode): the bytes, or throws = TRUE where atob throws
Atob(str) ==
    LET s == StripPadding(str)
        n == Len(s)
        v(i) == B64Value(s[i + 1])
        nBytes == (n \div 4) * 3 + (IF n % 4 = 2 THEN 1 ELSE IF n % 4 = 3 THEN 2 ELSE 0)
        byte(k) ==
            LET g == 4 * (k \div 3)
            IN  CASE k % 3 = 0 -> v(g) * 4 + (v(g + 1) \div 16)
                  [] k % 3 = 1 -> (v(g + 1) % 16) * 16 + (v(g + 2) \div 4)
                  [] OTHER     -> (v(g + 2) % 4) * 64 + v(g + 3)
    IN  IF n % 4 = 1 \/ \E i \in 1..n : ~IsB64Char(s[i])
        THEN [throws |-> TRUE, bytes |-> << >>]
        ELSE [throws |-> FALSE, bytes |-> [k \in 1..nBytes |-> byte(k - 1)]]

\* the result { earlyData, error }: earlyData is null unless hasData, and then
\* holds the decoded bytes; error is null unless hasError
base64ToArrayBuffer(base64Str) ==
    IF base64Str = << >> THEN [hasData |-> FALSE, earlyData |-> << >>, hasError |-> FALSE]
    ELSE LET decode == Atob(UrlSafeToStd(base64Str))
         IN  IF decode.throws
             THEN [hasData |-> FALSE, earlyData |-> << >>, hasError |-> TRUE]
             ELSE [hasData |-> TRUE, earlyData |-> decode.bytes, hasError |-> FALSE]

(***************************************************************************)
(* Configuration (lines 8-12)                                              *)
(***************************************************************************)
\* line 8: the identifier; processVlessHeader receives it and ignores it
userID == "a2056d0d-c98e-4aeb-9aab-37f64edd5710"
\* line 12: the override host the module starts with
InitialProxyIP == EmptyStr

\* an override host an environment may name
RelayHost == [fmt |-> "utf8", bytes |-> << 114 >>]

\* env.PROXYIP of a request (EmptyStr: the variable is not set)
EnvProxyIPs == { EmptyStr, RelayHost }

\* line 23: proxyIP = env.PROXYIP || proxyIP
FetchProxyIP(env, current) == IF env # EmptyStr THEN env ELSE current

\* a target that never looks at the override host
TargetHost_IgnoresOverride(proxy, addressRemote) == addressRemote

\* line 123: proxyIP || addressRemote
TargetHost(proxy, addressRemote) == IF proxy # EmptyStr THEN proxy ELSE addressRemote

(***************************************************************************)
(* The bounded inputs of a session                                         *)
(***************************************************************************)
MaxMsgs == 2
MaxUp == 2

\* the 16 identifier bytes of a request header (never validated, line 239)
UserIdBytes == << 9, 9, 251, 255, 191, 9, 9, 9, 9, 9, 9, 9, 9, 9, 9, 9 >>

\* version | userId:16 | optionsLen | options | command | port:2 | addrType | addr | payload
MkHeader(ver, opts, cmd, portHi, portLo, addrType, addr, payload) ==
    << ver >> \o UserIdBytes \o << Len(opts) >> \o opts
        \o << cmd, portHi, portLo, addrType >> \o addr \o payload

\* TCP to 10.0.0.1:80, two payload bytes
HdrTcp == MkHeader(0, << >>, 1, 0, 80, 1, << 10, 0, 0, 1 >>, << 7, 8 >>)
\* protocol version 1, one option byte, TCP to "abc":443, no payload
HdrDomain == MkHeader(1, << 5 >>, 1, 1, 187, 2, << 3, 97, 98, 99 >>, << >>)
\* UDP to 10.0.0.1:53 and to 10.0.0.1:80
HdrUdpDns == MkHeader(0, << >>, 2, 0, 53, 1, << 10, 0, 0, 1 >>, << 7 >>)
HdrUdp == MkHeader(0, << >>, 2, 0, 80, 1, << 10, 0, 0, 1 >>, << 7 >>)
\* command 3
HdrBadCmd == MkHeader(0, << >>, 3, 0, 80, 1, << 10, 0, 0, 1 >>, << 7, 8 >>)
\* the first 10 bytes of HdrTcp, and the 18 that complete it
HdrFragment == SubSeq(HdrTcp, 1, 10)
HdrRest == SubSeq(HdrTcp, 11, Len(HdrTcp))

\* the data of the binary frames a client may send
MsgPool == { HdrTcp, HdrDomain, HdrUdpDns, HdrUdp, HdrBadCmd, HdrRest }

\* sec-websocket-protocol values: absent, base64url of HdrTcp (unpadded),
\* base64url of HdrFragment (padded), and a string atob rejects
TokenNone == << >>
TokenHdrTcp ==
    << "A","A","k","J","-","_","-","_","C","Q","k","J","C","Q","k","J","C","Q","k",
       "J","C","Q","k","A","A","Q","B","Q","A","Q","o","A","A","A","E","H","C","A" >>
TokenFragment ==
    << "A","A","k","J","-","_","-","_","C","Q","k","J","C","Q","=","=" >>
TokenMalformed == << "A","A","k","J","A" >>
EarlyTokens == { TokenNone, TokenHdrTcp, TokenFragment, TokenMalformed }

\* the n-th chunk the outbound socket delivers (a byte stream never yields an
\* empty chunk).  The relay never looks into these bytes, so one value per
\* position is enough; each starts like a version-0 response header and they
\* differ in the last byte.
UpPool(n) == { << 0, 0, 70 + n >> }

(***************************************************************************)
(* The client WebSocket                                                    *)
(***************************************************************************)
wsVars == << wsClosedOut, wsClosedIn, wsCloseCalls, wsSent, wsErrorSeen, msgCount, msgs >>
rsVars == << rsState, rsQueue, rsCloseRequested, readableStreamCancel,
             accepted, rsThrows, queuedAtClose >>
sinkVars == << pipeState, wpc, curWrite, remoteSocket, isDns, vlessResponseHeader,
               delivered, decodeInputs, connectArgs, upWrites >>
sockVars == << sockState, writerLocked, pumpState, vlessHeaderSent, upCount >>
hdrVars == << hdrInput, hdrResult >>

\* ws.readyState from the two halves of the closing handshake
ReadyStateOf(closedIn, closedOut) ==
    IF closedIn /\ closedOut THEN "CLOSED"
    ELSE IF closedIn \/ closedOut THEN "CLOSING"
    ELSE "OPEN"

ReadyState == ReadyStateOf(wsClosedIn, wsClosedOut)

\* lines 308-316: close() is called when the socket is open or closing; what
\* close() throws is swallowed.  Gives the outgoing half and the call count.
safeCloseWebSocket(closedIn, closedOut, calls) ==
    IF ReadyStateOf(closedIn, closedOut) \in {"OPEN", "CLOSING"}
    THEN [out |-> TRUE, calls |-> calls + 1]
    ELSE [out |-> closedOut, calls |-> calls]

(***************************************************************************)
(* makeReadableWebSocketStream (lines 194-228)                             *)
(***************************************************************************)
\* a ReadableStream controller accepts enqueue() and close() only while the
\* stream is readable and close() has not been called; otherwise they throw
CanCloseOrEnqueue == rsState = "readable" /\ ~rsCloseRequested

\* lines 212-217: start() decodes the token and errors the stream or enqueues
\* the early data
StreamStart(r) ==
    IF r.hasError THEN [state |-> "errored", queue |-> << >>]
    ELSE IF r.hasData THEN [state |-> "readable", queue |-> << r.earlyData >>]
    ELSE [state |-> "readable", queue |-> << >>]

\* lines 144-152: pipeTo ends once no write() is running and the source is
\* closed (the sink's close() does nothing) or errored (abort() and the catch
\* only log)
PipeAfter(state, pc) ==
    IF pipeState = "running" /\ pc = "idle"
    THEN IF state = "closed" THEN "done"
         ELSE IF state = "errored" THEN "aborted"
         ELSE "running"
    ELSE pipeState

\* line 74: udpStreamWrite is null and never assigned, so the branch of
\* lines 79-81 is never taken
udpStreamWriteSet == FALSE

\* pipeTo hands the next chunk to the sink once the previous write() has
\* settled.  It does so in a microtask, so while this holds no event listener
\* and no I/O completion runs before the sink has taken the chunk.
CanRead ==
    /\ pipeState = "running"
    /\ wpc = "idle"
    /\ rsState = "readable"
    /\ rsQueue # << >>
    /\ ~(isDns /\ udpStreamWriteSet)

\* lines 22-23, 57-77: the state when vlessOverWSHandler returns its Response
\* to the first request the module serves
Init ==
    /\ \E env \in EnvProxyIPs : proxyIP = FetchProxyIP(env, InitialProxyIP)
    /\ earlyDataHeader \in EarlyTokens
    /\ earlyDecode = base64ToArrayBuffer(earlyDataHeader)
    /\ wsClosedOut = FALSE
    /\ wsClosedIn = FALSE
    /\ wsCloseCalls = 0
    /\ wsSent = << >>
    /\ wsErrorSeen = FALSE
    /\ msgCount = 0
    /\ msgs = << >>
    /\ rsState = StreamStart(earlyDecode).state
    /\ rsQueue = StreamStart(earlyDecode).queue
    /\ rsCloseRequested = FALSE
    /\ readableStreamCancel = FALSE
    /\ accepted = StreamStart(earlyDecode).queue
    /\ rsThrows = 0
    /\ queuedAtClose = 0
    /\ pipeState = IF rsState = "errored" THEN "aborted" ELSE "running"
    /\ wpc = "idle"
    /\ curWrite = << >>
    /\ remoteSocket = 0
    /\ isDns = FALSE
    /\ vlessResponseHeader = << >>
    /\ delivered = << >>
    /\ decodeInputs = << >>
    /\ connectArgs = << >>
    /\ upWrites = << >>
    /\ sockState = "none"
    /\ writerLocked = FALSE
    /\ pumpState = "none"
    /\ vlessHeaderSent = FALSE
    /\ upCount = 0
    /\ hdrInput = << >>
    /\ hdrResult = [pending |-> TRUE]

\* lines 198-202: the 'message' listener
OnMessage(m) ==
    /\ IF readableStreamCancel THEN UNCHANGED << msgs, rsQueue, accepted, rsThrows >>
       ELSE /\ msgs' = Append(msgs, m)
            /\ IF CanCloseOrEnqueue
               THEN /\ rsQueue' = Append(rsQueue, m)
                    /\ accepted' = Append(accepted, m)
                    /\ UNCHANGED rsThrows
               ELSE /\ rsThrows' = rsThrows + 1
                    /\ UNCHANGED << rsQueue, accepted >>
    /\ UNCHANGED << wsClosedOut, wsClosedIn, wsCloseCalls, wsSent, wsErrorSeen,
                    rsState, rsCloseRequested, readableStreamCancel, queuedAtClose >>

\* a binary frame arrives; frames keep arriving until the peer's close is received
WsMessage ==
    /\ ~CanRead
    /\ ~wsClosedIn
    /\ msgCount < MaxMsgs
    /\ msgCount' = msgCount + 1
    /\ \E m \in MsgPool : OnMessage(m)
    /\ UNCHANGED << earlyDataHeader, earlyDecode, proxyIP, sinkVars, sockVars, hdrVars >>

\* a 'close' listener that errors the controller instead of closing it, which
\* drops the chunks still queued
OnClose_Errors ==
    /\ LET c == safeCloseWebSocket(TRUE, wsClosedOut, wsCloseCalls)
       IN  /\ wsClosedOut' = c.out
           /\ wsCloseCalls' = c.calls
    /\ IF readableStreamCancel \/ rsState # "readable"
       THEN UNCHANGED << rsState, rsQueue >>
       ELSE rsState' = "errored" /\ rsQueue' = << >>
    /\ UNCHANGED << rsCloseRequested, rsThrows, queuedAtClose, accepted,
                    readableStreamCancel >>

\* lines 203-207: the 'close' listener
OnClose ==
    /\ LET c == safeCloseWebSocket(TRUE, wsClosedOut, wsCloseCalls)
       IN  /\ wsClosedOut' = c.out
           /\ wsCloseCalls' = c.calls
    /\ IF readableStreamCancel
       THEN UNCHANGED << rsState, rsCloseRequested, rsThrows, queuedAtClose >>
       ELSE IF CanCloseOrEnqueue
       THEN /\ rsCloseRequested' = TRUE
            /\ queuedAtClose' = Len(rsQueue)
            /\ rsState' = IF rsQueue = << >> THEN "closed" ELSE "readable"
            /\ UNCHANGED rsThrows
       ELSE /\ rsThrows' = rsThrows + 1
            /\ UNCHANGED << rsState, rsCloseRequested, queuedAtClose >>
    /\ UNCHANGED << rsQueue, accepted, readableStreamCancel >>

\* the peer's close is received
WsClose ==
    /\ ~CanRead
    /\ ~wsClosedIn
    /\ wsClosedIn' = TRUE
    /\ OnClose
    /\ pipeState' = PipeAfter(rsState', wpc)
    /\ UNCHANGED << wsSent, wsErrorSeen, msgCount, msgs, earlyDataHeader, earlyDecode, proxyIP,
                    wpc, curWrite, remoteSocket, isDns, vlessResponseHeader,
                    delivered, decodeInputs, connectArgs, upWrites, sockVars, hdrVars >>

\* lines 208-211: the 'error' listener; controller.error() on a stream that
\* is no longer readable does nothing
OnError ==
    /\ IF rsState = "readable"
       THEN rsState' = "errored" /\ rsQueue' = << >>
       ELSE UNCHANGED << rsState, rsQueue >>
    /\ UNCHANGED << wsCloseCalls, rsCloseRequested, readableStreamCancel,
                    accepted, rsThrows, queuedAtClose >>

\* the transport reports an error; the runtime either leaves the socket as
\* it is or has torn it down (broken)
WsError ==
    /\ ~CanRead
    /\ ~wsClosedIn
    /\ ~wsErrorSeen
    /\ wsErrorSeen' = TRUE
    /\ OnError
    /\ \E broken \in BOOLEAN :
          IF broken THEN wsClosedIn' = TRUE /\ wsClosedOut' = TRUE
          ELSE UNCHANGED << wsClosedIn, wsClosedOut >>
    /\ pipeState' = PipeAfter(rsState', wpc)
    /\ UNCHANGED << wsSent, msgCount, msgs, earlyDataHeader, earlyDecode, proxyIP,
                    wpc, curWrite, remoteSocket, isDns, vlessResponseHeader,
                    delivered, decodeInputs, connectArgs, upWrites, sockVars, hdrVars >>

\* lines 220-225, reached through ReadableStreamCancel when the sink fails:
\* a readable stream is closed, its queue dropped and cancel() called; a
\* stream already closed or errored is left alone
CancelSource(state, queue) ==
    IF state = "readable"
    THEN /\ rsState' = "closed"
         /\ rsQueue' = << >>
         /\ IF readableStreamCancel
            THEN UNCHANGED << readableStreamCancel, wsClosedOut, wsCloseCalls >>
            ELSE LET c == safeCloseWebSocket(wsClosedIn, wsClosedOut, wsCloseCalls)
                 IN  /\ readableStreamCancel' = TRUE
                     /\ wsClosedOut' = c.out
                     /\ wsCloseCalls' = c.calls
    ELSE /\ rsState' = state
         /\ rsQueue' = queue
         /\ UNCHANGED << readableStreamCancel, wsClosedOut, wsCloseCalls >>

(***************************************************************************)
(* vlessOverWSHandler: readableWebSocketStream.pipeTo(sink) (lines 77-152) *)
(***************************************************************************)
NextChunk == Head(rsQueue)

\* reading the last chunk of a stream whose close was requested closes it
StateAfterRead ==
    IF rsCloseRequested /\ Len(rsQueue) = 1 THEN "closed" ELSE "readable"

\* the chunk leaves the queue and write(chunk) runs to its first await
TakeChunk ==
    /\ rsQueue' = Tail(rsQueue)
    /\ rsState' = StateAfterRead
    /\ delivered' = Append(delivered, NextChunk)

\* write(chunk) throws: the sink is errored and pipeTo cancels the source
TakeChunkAndFail ==
    /\ delivered' = Append(delivered, NextChunk)
    /\ pipeState' = "failed"
    /\ CancelSource(StateAfterRead, Tail(rsQueue))

\* lines 89-97: the decode of the chunk at the head of the queue
Decoded == processVlessHeader(NextChunk, userID)

\* lines 108-114: a UDP request passes only for port 53
UdpAllowed(r) == r.isUDP => r.portRemote = 53

\* line 117
ResponseHeader(r) == << r.vlessVersion[1], 0 >>

\* line 118
RawClientData(chunk, r) == SliceFrom(chunk, r.rawDataIndex)

\* lines 123-128: the argument of connect()
ConnectRequest(r) == [hostname |-> TargetHost(proxyIP, r.addressRemote), port |-> r.portRemote]

\* lines 82-87: a socket exists; the chunk is written to it
ForwardChunk ==
    /\ CanRead
    /\ remoteSocket # 0
    /\ ~writerLocked
    /\ TakeChunk
    /\ writerLocked' = TRUE
    /\ wpc' = "nextWrite"
    /\ curWrite' = NextChunk
    /\ UNCHANGED << wsVars, earlyDataHeader, earlyDecode, proxyIP, rsCloseRequested, readableStreamCancel,
                    accepted, rsThrows, queuedAtClose,
                    pipeState, remoteSocket, isDns, vlessResponseHeader,
                    decodeInputs, connectArgs, upWrites,
                    sockState, pumpState, vlessHeaderSent, upCount, hdrVars >>

\* line 83: getWriter() on a writable still locked by the writer of line 131
\* (never released after a failed first write) throws
ForwardLocked ==
    /\ CanRead
    /\ remoteSocket # 0
    /\ writerLocked
    /\ TakeChunkAndFail
    /\ UNCHANGED << wsClosedIn, wsSent, wsErrorSeen, msgCount, msgs, earlyDataHeader, earlyDecode, proxyIP,
                    rsCloseRequested, accepted, rsThrows, queuedAtClose,
                    wpc, curWrite, remoteSocket, isDns, vlessResponseHeader,
                    decodeInputs, connectArgs, upWrites, sockVars, hdrVars >>

\* a write() that returns on a decode error instead of throwing
DecodeFails_Returns ==
    /\ CanRead
    /\ remoteSocket = 0
    /\ Decoded.hasError
    /\ decodeInputs' = Append(decodeInputs, NextChunk)
    /\ TakeChunk
    /\ pipeState' = PipeAfter(StateAfterRead, "idle")
    /\ UNCHANGED << wsVars, earlyDataHeader, earlyDecode, proxyIP,
                    rsCloseRequested, readableStreamCancel, accepted, rsThrows,
                    queuedAtClose, wpc, curWrite, remoteSocket, isDns,
                    vlessResponseHeader, connectArgs, upWrites, sockVars, hdrVars >>

\* lines 89-105: no socket yet; the chunk is decoded and the decode fails
DecodeFails ==
    /\ CanRead
    /\ remoteSocket = 0
    /\ Decoded.hasError
    /\ decodeInputs' = Append(decodeInputs, NextChunk)
    /\ TakeChunkAndFail
    /\ UNCHANGED << wsClosedIn, wsSent, wsErrorSeen, msgCount, msgs, earlyDataHeader, earlyDecode, proxyIP,
                    rsCloseRequested, accepted, rsThrows, queuedAtClose,
                    wpc, curWrite, remoteSocket, isDns, vlessResponseHeader,
                    connectArgs, upWrites, sockVars, hdrVars >>

\* lines 108-113: UDP to a port other than 53
UdpRejected ==
    /\ CanRead
    /\ remoteSocket = 0
    /\ ~Decoded.hasError
    /\ ~UdpAllowed(Decoded)
    /\ decodeInputs' = Append(decodeInputs, NextChunk)
    /\ TakeChunkAndFail
    /\ UNCHANGED << wsClosedIn, wsSent, wsErrorSeen, msgCount, msgs, earlyDataHeader, earlyDecode, proxyIP,
                    rsCloseRequested, accepted, rsThrows, queuedAtClose,
                    wpc, curWrite, remoteSocket, isDns, vlessResponseHeader,
                    connectArgs, upWrites, sockVars, hdrVars >>

\* lines 121-128, 138-142: connect() throws; the catch closes the client
\* socket and write() returns normally
ConnectThrows ==
    /\ CanRead
    /\ remoteSocket = 0
    /\ ~Decoded.hasError
    /\ UdpAllowed(Decoded)
    /\ decodeInputs' = Append(decodeInputs, NextChunk)
    /\ isDns' = (isDns \/ Decoded.isUDP)
    /\ connectArgs' = Append(connectArgs, ConnectRequest(Decoded))
    /\ TakeChunk
    /\ wsClosedOut' = TRUE
    /\ wsCloseCalls' = wsCloseCalls + 1
    /\ pipeState' = PipeAfter(StateAfterRead, "idle")
    /\ UNCHANGED << wsClosedIn, wsSent, wsErrorSeen, msgCount, msgs, earlyDataHeader, earlyDecode, proxyIP,
                    rsCloseRequested, readableStreamCancel, accepted, rsThrows,
                    queuedAtClose, wpc, curWrite, remoteSocket,
                    vlessResponseHeader, upWrites, sockVars, hdrVars >>

\* lines 121-132: connect() returns a socket; the trailing payload is written
ConnectReturns ==
    /\ CanRead
    /\ remoteSocket = 0
    /\ ~Decoded.hasError
    /\ UdpAllowed(Decoded)
    /\ decodeInputs' = Append(decodeInputs, NextChunk)
    /\ isDns' = (isDns \/ Decoded.isUDP)
    /\ vlessResponseHeader' = ResponseHeader(Decoded)
    /\ connectArgs' = Append(connectArgs, ConnectRequest(Decoded))
    /\ remoteSocket' = Len(connectArgs) + 1
    /\ sockState' = "open"
    /\ writerLocked' = TRUE
    /\ wpc' = "firstWrite"
    /\ curWrite' = RawClientData(NextChunk, Decoded)
    /\ TakeChunk
    /\ UNCHANGED << wsVars, earlyDataHeader, earlyDecode, proxyIP, rsCloseRequested, readableStreamCancel,
                    accepted, rsThrows, queuedAtClose, pipeState, upWrites,
                    pumpState, vlessHeaderSent, upCount, hdrVars >>

\* lines 132-136: the first write completes, the lock is released and
\* remoteSocketToWS is started
FirstWriteDone ==
    /\ wpc = "firstWrite"
    /\ sockState = "open"
    /\ upWrites' = Append(upWrites, curWrite)
    /\ writerLocked' = FALSE
    /\ wpc' = "idle"
    /\ pumpState' = "running"
    /\ pipeState' = PipeAfter(rsState, "idle")
    /\ UNCHANGED << wsVars, earlyDataHeader, earlyDecode, proxyIP, rsVars,
                    curWrite, remoteSocket, isDns, vlessResponseHeader,
                    delivered, decodeInputs, connectArgs,
                    sockState, vlessHeaderSent, upCount, hdrVars >>

\* lines 132, 138-142: the first write rejects (the connection could not be
\* made, or broke); the catch closes the client socket, the lock stays held
FirstWriteFails ==
    /\ wpc = "firstWrite"
    /\ sockState' = "errored"
    /\ wpc' = "idle"
    /\ wsClosedOut' = TRUE
    /\ wsCloseCalls' = wsCloseCalls + 1
    /\ pipeState' = PipeAfter(rsState, "idle")
    /\ UNCHANGED << wsClosedIn, wsSent, wsErrorSeen, msgCount, msgs, earlyDataHeader, earlyDecode, proxyIP, rsVars,
                    curWrite, remoteSocket, isDns, vlessResponseHeader,
                    delivered, decodeInputs, connectArgs, upWrites,
                    writerLocked, pumpState, vlessHeaderSent, upCount, hdrVars >>

\* lines 84-86: the write of a later chunk completes
NextWriteDone ==
    /\ wpc = "nextWrite"
    /\ sockState \in {"open", "cancelled"}
    /\ upWrites' = Append(upWrites, curWrite)
    /\ writerLocked' = FALSE
    /\ wpc' = "idle"
    /\ pipeState' = PipeAfter(rsState, "idle")
    /\ UNCHANGED << wsVars, earlyDataHeader, earlyDecode, proxyIP, rsVars,
                    curWrite, remoteSocket, isDns, vlessResponseHeader,
                    delivered, decodeInputs, connectArgs,
                    sockState, pumpState, vlessHeaderSent, upCount, hdrVars >>

\* line 84: the write of a later chunk rejects; write() rejects with it, the
\* sink is errored and pipeTo cancels the source
NextWriteFails ==
    /\ wpc = "nextWrite"
    /\ wpc' = "idle"
    /\ sockState' = IF sockState = "open" THEN "errored" ELSE sockState
    /\ pumpState' = IF pumpState = "running" /\ sockState = "open"
                    THEN "errored" ELSE pumpState
    /\ pipeState' = "failed"
    /\ CancelSource(rsState, rsQueue)
    /\ UNCHANGED << wsClosedIn, wsSent, wsErrorSeen, msgCount, msgs, earlyDataHeader, earlyDecode, proxyIP,
                    rsCloseRequested, accepted, rsThrows, queuedAtClose,
                    curWrite, remoteSocket, isDns, vlessResponseHeader,
                    delivered, decodeInputs, connectArgs, upWrites,
                    writerLocked, vlessHeaderSent, upCount, hdrVars >>

(***************************************************************************)
(* remoteSocketToWS (lines 162-192)                                        *)
(***************************************************************************)
\* a pump that prefixes the header to every chunk
DownstreamMessage_AlwaysPrefixed(headerSent, header, chunk) == header \o chunk

\* lines 174-184: what is handed to webSocket.send for an upstream chunk
DownstreamMessage(headerSent, header, chunk) ==
    IF ~headerSent THEN header \o chunk ELSE chunk

\* a pump that skips the chunk when the client socket is not open and goes on
UpstreamChunk_NoAbort ==
    /\ ~CanRead
    /\ pumpState = "running"
    /\ sockState = "open"
    /\ upCount < MaxUp
    /\ upCount' = upCount + 1
    /\ vlessHeaderSent' = TRUE
    /\ \E chunk \in UpPool(upCount + 1) :
          IF ReadyState = "OPEN"
          THEN wsSent' = Append(wsSent,
                      [data |-> DownstreamMessage(vlessHeaderSent, vlessResponseHeader, chunk),
                       from |-> chunk])
          ELSE UNCHANGED wsSent
    /\ UNCHANGED << wsClosedOut, wsClosedIn, wsCloseCalls, wsErrorSeen, msgCount, msgs,
                    earlyDataHeader, earlyDecode, proxyIP, rsVars, sinkVars,
                    pumpState, sockState, writerLocked, hdrVars >>

\* lines 168-185: a chunk read from the socket.  With the client socket not
\* open, controller.error() ends the pump and send() delivers nothing;
\* pipeTo then cancels socket.readable.
UpstreamChunk ==
    /\ ~CanRead
    /\ pumpState = "running"
    /\ sockState = "open"
    /\ upCount < MaxUp
    /\ upCount' = upCount + 1
    /\ vlessHeaderSent' = TRUE
    /\ \E chunk \in UpPool(upCount + 1) :
          IF ReadyState = "OPEN"
          THEN /\ wsSent' = Append(wsSent,
                      [data |-> DownstreamMessage(vlessHeaderSent, vlessResponseHeader, chunk),
                       from |-> chunk])
               /\ UNCHANGED << pumpState, sockState >>
          ELSE /\ pumpState' = "errored"
               /\ sockState' = "cancelled"
               /\ UNCHANGED wsSent
    /\ UNCHANGED << wsClosedOut, wsClosedIn, wsCloseCalls, wsErrorSeen, msgCount, msgs,
                    earlyDataHeader, earlyDecode, proxyIP, rsVars, sinkVars, writerLocked, hdrVars >>

\* line 186: the peer ends the connection; the pump's close() does nothing
UpstreamEof ==
    /\ ~CanRead
    /\ pumpState = "running"
    /\ sockState = "open"
    /\ sockState' = "eof"
    /\ pumpState' = "done"
    /\ UNCHANGED << wsVars, earlyDataHeader, earlyDecode, proxyIP, rsVars, sinkVars,
                    writerLocked, vlessHeaderSent, upCount, hdrVars >>

\* lines 187-191: reading from the socket fails; abort() and the catch only log
UpstreamError ==
    /\ ~CanRead
    /\ pumpState = "running"
    /\ sockState = "open"
    /\ wpc = "idle"
    /\ sockState' = "errored"
    /\ pumpState' = "errored"
    /\ UNCHANGED << wsVars, earlyDataHeader, earlyDecode, proxyIP, rsVars, sinkVars,
                    writerLocked, vlessHeaderSent, upCount, hdrVars >>

(***************************************************************************)
(* fetch (lines 19-23)                                                     *)
(***************************************************************************)
\* another request reaches the module while this session runs; line 23
\* assigns the module-level proxyIP from that request's env
OtherFetch ==
    /\ ~CanRead
    /\ \E env \in EnvProxyIPs : proxyIP' = FetchProxyIP(env, proxyIP)
    /\ proxyIP' # proxyIP
    /\ UNCHANGED << wsVars, earlyDataHeader, earlyDecode, rsVars, sinkVars,
                    sockVars, hdrVars >>

(***************************************************************************)
(* One session                                                             *)
(***************************************************************************)
Next ==
    \/ OtherFetch
    \/ WsMessage
    \/ WsClose
    \/ WsError
    \/ ForwardChunk
    \/ ForwardLocked
    \/ DecodeFails
    \/ UdpRejected
    \/ ConnectThrows
    \/ ConnectReturns
    \/ FirstWriteDone
    \/ FirstWriteFails
    \/ NextWriteDone
    \/ NextWriteFails
    \/ UpstreamChunk
    \/ UpstreamEof
    \/ UpstreamError

Spec == Init /\ [][Next]_vars

(***************************************************************************)
(* processVlessHeader on its own, over a bounded family of first chunks    *)
(***************************************************************************)
MaxOpt == 2
MaxDomain == 2
MaxCut == 5

\* n bytes of filler
Fill(n, b) == [i \in 1..n |-> b]

\* the address field of each address type; an unknown type is followed by 4 bytes
AddrField(addrType, domainLen) ==
    IF addrType = 2 THEN << domainLen >> \o Fill(domainLen, 97)
    ELSE IF addrType = 3 THEN Fill(16, 32)
    ELSE << 10, 0, 0, 1 >>

\* well-formed headers of every command and address type with two payload
\* bytes, and the same headers with up to MaxCut bytes cut off the end
HeaderInputs ==
    { SubSeq(h, 1, Len(h) - cut) :
        h \in { MkHeader(ver, Fill(opt, 5), cmd, port[1], port[2], addrType,
                         AddrField(addrType, domainLen), << 7, 8 >>) :
                  ver \in {0, 1}, opt \in 0..MaxOpt, cmd \in 0..3,
                  port \in { << 0, 80 >>, << 1, 187 >>, << 0, 0 >> },
                  addrType \in 0..4, domainLen \in 0..MaxDomain },
        cut \in 0..MaxCut }

InitDecode ==
    /\ hdrInput \in HeaderInputs
    /\ hdrResult = [pending |-> TRUE]
    /\ proxyIP = InitialProxyIP
    /\ earlyDataHeader = TokenNone
    /\ earlyDecode = base64ToArrayBuffer(TokenNone)
    /\ wsClosedOut = FALSE
    /\ wsClosedIn = FALSE
    /\ wsCloseCalls = 0
    /\ wsSent = << >>
    /\ wsErrorSeen = FALSE
    /\ msgCount = 0
    /\ msgs = << >>
    /\ rsState = "readable"
    /\ rsQueue = << >>
    /\ rsCloseRequested = FALSE
    /\ readableStreamCancel = FALSE
    /\ accepted = << >>
    /\ rsThrows = 0
    /\ queuedAtClose = 0
    /\ pipeState = "running"
    /\ wpc = "idle"
    /\ curWrite = << >>
    /\ remoteSocket = 0
    /\ isDns = FALSE
    /\ vlessResponseHeader = << >>
    /\ delivered = << >>
    /\ decodeInputs = << >>
    /\ connectArgs = << >>
    /\ upWrites = << >>
    /\ sockState = "none"
    /\ writerLocked = FALSE
    /\ pumpState = "none"
    /\ vlessHeaderSent = FALSE
    /\ upCount = 0

\* line 97: the call of processVlessHeader
Decode ==
    /\ hdrResult = [pending |-> TRUE]
    /\ hdrResult' = processVlessHeader(hdrInput, userID)
    /\ UNCHANGED << hdrInput, wsVars, earlyDataHeader, earlyDecode, proxyIP, rsVars, sinkVars, sockVars >>

NextDecode == Decode

DecodeSpec == InitDecode /\ [][NextDecode]_vars

(***************************************************************************)
(* Properties                                                              *)
(***************************************************************************)
IsPrefix(a, b) == Len(a) <= Len(b) /\ SubSeq(b, 1, Len(a)) = a

\* the chunk whose decode led to the session's socket
RequestHeader == decodeInputs[Len(decodeInputs)]

\* the early data start() enqueued, as a sequence of zero or one chunk
EarlyChunks == StreamStart(earlyDecode).queue

\* no step of the session's own code is pending: only the client, the
\* transport or the upstream peer can move it on
Quiescent ==
    /\ wpc = "idle"
    /\ ~CanRead

\* C1: the response header [version, 0] is sent once: the first downstream
\* message is the header followed by the first upstream chunk (so it is longer
\* than the header), and every later downstream message is the upstream chunk
\* as read, with nothing put in front of it.
C1_ResponseHeaderOnce ==
    \A i \in 1..Len(wsSent) :
        IF i = 1
        THEN /\ wsSent[1].data = << RequestHeader[1], 0 >> \o wsSent[1].from
             /\ Len(wsSent[1].data) > 2
        ELSE wsSent[i].data = wsSent[i].from

\* C1 witness: two downstream messages of a session whose request had version 1,
\* the second starting with bytes equal to a version-0 header
C1_Witness ==
    /\ Len(wsSent) = 2
    /\ RequestHeader[1] = 1
    /\ wsSent[2].from = << 0, 0, 72 >>

\* C2: connect() is called at most once per session, and only after a
\* successful decode.
C2_ConnectAtMostOnce ==
    /\ Len(connectArgs) <= 1
    /\ connectArgs # << >> =>
          \E i \in 1..Len(decodeInputs) : ~processVlessHeader(decodeInputs[i], userID).hasError

\* C3: no session comes to rest with one side closed and the other open: once
\* the session has a socket and none of its own steps is pending, the client
\* transport is closed exactly when the upstream connection is.
C3_ClosePropagates ==
    (remoteSocket # 0 /\ Quiescent) => ((ReadyState # "OPEN") <=> (sockState # "open"))

\* C4: processVlessHeader is called at most once per session, on the first
\* inbound chunk.
C4_DecodeAtMostOnce ==
    /\ Len(decodeInputs) <= 1
    /\ decodeInputs # << >> => decodeInputs[1] = delivered[1]

\* C5: when the first chunk decodes, the upstream writes are the first chunk
\* from payloadOffset on, then the later chunks as they arrived.
C5_UpstreamWrites ==
    (delivered # << >> /\ ~processVlessHeader(delivered[1], userID).hasError) =>
        LET first == delivered[1]
            offset == processVlessHeader(first, userID).rawDataIndex
        IN  IsPrefix(upWrites, << SubSeq(first, offset + 1, Len(first)) >> \o Tail(delivered))

\* C6: while the transport has not errored and the consumer has not cancelled,
\* the sequence is never errored, the chunks enqueued are the early data
\* followed by one chunk per message in arrival order, and the consumer has
\* received them in that order with none missing; when the sequence has closed,
\* every chunk enqueued has been delivered.
C6_ChunkSequence ==
    (~wsErrorSeen /\ ~readableStreamCancel /\ ~earlyDecode.hasError) =>
        /\ rsState # "errored"
        /\ accepted = EarlyChunks \o msgs
        /\ delivered \o rsQueue = accepted
        /\ rsState = "closed" => delivered = accepted

\* C6 witness: the transport closed with a chunk still queued behind the early
\* data, and the sequence then closed with all of them delivered
C6_Witness ==
    /\ EarlyChunks # << >>
    /\ Len(msgs) >= 1
    /\ queuedAtClose >= 1
    /\ rsState = "closed"
    /\ ~readableStreamCancel
    /\ ~wsErrorSeen
    /\ delivered = EarlyChunks \o msgs

\* C7: when the early data is a fragment of the header, the decoder runs on
\* the early data followed by the first live frame.
C7_EarlyDataConcatenated ==
    (EarlyChunks # << >> /\ Len(EarlyChunks[1]) < MinHeaderLength /\ decodeInputs # << >>) =>
        /\ msgs # << >>
        /\ decodeInputs[1] = EarlyChunks[1] \o msgs[1]

\* C8: when decoding the first chunk fails, no connect is attempted, nothing
\* is written upstream, the client transport is no longer open and the session
\* processes nothing more.
C8_DecodeFailureCloses ==
    (decodeInputs # << >> /\ processVlessHeader(decodeInputs[1], userID).hasError) =>
        /\ connectArgs = << >>
        /\ remoteSocket = 0
        /\ sockState = "none"
        /\ upWrites = << >>
        /\ ReadyState # "OPEN"
        /\ pipeState = "failed"
        /\ Len(decodeInputs) = 1

\* C8 witness: a first chunk with command 3 was rejected and the cancel closed
\* the client transport
C8_Witness ==
    /\ decodeInputs = << HdrBadCmd >>
    /\ readableStreamCancel
    /\ wsCloseCalls = 1
    /\ ReadyState = "CLOSING"

DecodeDone == hdrResult # [pending |-> TRUE]

\* C9: for a successful decode with options length O, rawDataIndex is 26+O
\* for address type 1, 23+O+L for address type 2 whose length byte is L, and
\* 38+O for address type 3; the port is the big-endian pair at 19+O and 20+O.
C9_PayloadOffset ==
    (DecodeDone /\ ~hdrResult.hasError) =>
        LET O == hdrInput[18]
            addrType == hdrInput[22 + O]
        IN  /\ hdrResult.portRemote = hdrInput[20 + O] * 256 + hdrInput[21 + O]
            /\ addrType = 1 => hdrResult.rawDataIndex = 26 + O
            /\ (addrType = 2 /\ Len(hdrInput) >= 23 + O) =>
                  hdrResult.rawDataIndex = 23 + O + hdrInput[23 + O]
            /\ addrType = 3 => hdrResult.rawDataIndex = 38 + O

\* C9 witness: a decoded domain address of length 2 behind one option byte,
\* to port 443
C9_Witness ==
    /\ DecodeDone
    /\ ~hdrResult.hasError
    /\ hdrInput[18] = 1
    /\ hdrResult.addressType = 2
    /\ hdrResult.rawDataIndex = 26
    /\ hdrResult.portRemote = 443

\* C10: when the transport raises an error event, a readable sequence becomes
\* errored and an open transport has close() called on it by the listener.
C10_ErrorClosesTransport ==
    [][(~wsErrorSeen /\ wsErrorSeen') =>
          /\ rsState = "readable" => rsState' = "errored"
          /\ ReadyState = "OPEN" => wsCloseCalls' = wsCloseCalls + 1]_vars

\* C11: once the consumer has cancelled the sequence, no later message is
\* enqueued, and close() has been invoked on the transport exactly once in the
\* session, whatever events follow.
C11_CancelClosesOnce ==
    [][readableStreamCancel' =>
          /\ wsCloseCalls' = 1
          /\ readableStreamCancel => accepted' = accepted]_vars

C13_UdpNeverConnects ==
    /\ isDns => (connectArgs = << >> /\ remoteSocket = 0)
    /\ \A i \in 1..Len(decodeInputs) :
          LET r == processVlessHeader(decodeInputs[i], userID)
          IN  (~r.hasError /\ r.isUDP /\ r.portRemote # 53) => pipeState = "failed"

\* C14: with a malformed early-data token the sequence is errored, no chunk
\* is delivered, the decoder is not called, connect() is not called and the
\* client transport is not left open.
C14_MalformedEarlyDataCloses ==
    earlyDecode.hasError =>
        /\ rsState = "errored"
        /\ delivered = << >>
        /\ decodeInputs = << >>
        /\ connectArgs = << >>
        /\ ReadyState # "OPEN"

\* C15: connect() is called at most once, and once a connect, an upstream
\* write, an upstream read or a send to the client has failed and the
\* session's own steps have run, the client transport is not open.
C15_ErrorsCloseClient ==
    /\ Len(connectArgs) <= 1
    /\ (Quiescent /\ (\/ sockState = "errored"
                      \/ pumpState = "errored"
                      \/ (connectArgs # << >> /\ remoteSocket = 0))) =>
          ReadyState # "OPEN"

\* C16: every connect() call is made to the override host when proxyIP is
\* not empty at that moment and to the address decoded from the chunk
\* otherwise, with the port read from the chunk's two port bytes.
C16_ConnectTarget ==
    [][Len(connectArgs') > Len(connectArgs) =>
          LET c == connectArgs'[Len(connectArgs')]
              chunk == Head(rsQueue)
              O == chunk[18]
          IN  /\ c.port = chunk[20 + O] * 256 + chunk[21 + O]
              /\ c.hostname = IF proxyIP # EmptyStr THEN proxyIP
                               ELSE processVlessHeader(chunk, userID).addressRemote]_vars

\* C16 witness: a request for "abc":443 was connected to the override host,
\* port 443
C16_Witness ==
    /\ decodeInputs = << HdrDomain >>
    /\ connectArgs = << [hostname |-> RelayHost, port |-> 443] >>
    /\ remoteSocket = 1

\* C17: the override host a session reads is read-only once the session has
\* started: no other request changes it.
C17_ConfigReadOnly ==
    [][proxyIP' = proxyIP]_vars

\* C18: every successful decode has rawDataIndex within the chunk and a
\* port in 1..65535 (a chunk whose declared fields reach past its end is
\* rejected).
C18_FieldsWithinChunk ==
    (DecodeDone /\ ~hdrResult.hasError) =>
        /\ hdrResult.rawDataIndex \in 0..Len(hdrInput)
        /\ hdrResult.portRemote \in 1..65535

\* C19: a chunk is handed to write() only when no upstream write is in
\* flight, and when the session has a socket its writer lock is free at that
\* moment.
C19_OneWriteAtATime ==
    [][delivered' # delivered =>
          /\ wpc = "idle"
          /\ remoteSocket # 0 => ~writerLocked]_vars

\* C20: no enqueue() or close() is ever performed on a sequence that is
\* closed, closing or errored.
C20_NoCallOnFinishedSequence ==
    rsThrows = 0

====
